---- MODULE Spec2Model ----
(***************************************************************************)
(* Model of Development/nmos/thread_utils.h (namespace nmos::details):     *)
(*   reverse_lock_guard  - temporarily unlock a mutex for a scope          *)
(*   wait_until          - condition wait with a max-time_point special    *)
(*                         case                                            *)
(*   thread_guard        - start a thread, later pre_join() then join()    *)
(* The three utilities are exercised by three threads sharing one          *)
(* std::mutex, one std::condition_variable and one boolean (the state the  *)
(* predicate reads):                                                       *)
(*   "main"   constructs, moves and destroys thread_guards; its pre_join   *)
(*            callable is the closure [&]{ lock; flag = true; notify_all;  *)
(*            unlock } (captures by reference, so a moved-from copy of it  *)
(*            is still callable and does the same)                         *)
(*   "worker" is the Function f of the thread_guard: it holds a            *)
(*            unique_lock and loops on wait_until; after a timed-out wait  *)
(*            it does its periodic work inside a reverse_lock_guard scope  *)
(*   "other"  locks the mutex, notifies the condition variable without     *)
(*            changing the flag and unlocks                                *)
(* std::mutex, std::condition_variable and std::thread behave as the C++   *)
(* standard describes them.                                                *)
(* Spec is the correct usage above. LockedFairSpec lets main hold the      *)
(* mutex, and open a reverse_lock_guard scope on it, around its guards.    *)
(* MisuseSpec lets "other" construct a reverse_lock_guard on a mutex it    *)
(* does not hold.                                                          *)
(***************************************************************************)
EXTENDS Integers, FiniteSets, Sequences, TLC

\* ---- bounds of the model -------------------------------------------------
MaxTime == 1        \* the clock runs over 0..MaxTime
MaxGuards == 2      \* thread_guard objects that can be constructed
MaxWakes == 2       \* the wake-up counter of one call saturates here

\* (std::chrono::time_point<Clock, Duration>::max)(): later than every clock value
TimeMax == MaxTime + 1

None == "none"
Guards == 1..MaxGuards
Deadlines == (0..MaxTime) \cup {TimeMax}
ExitKinds == {"normal", "return", "throw"}

VARIABLES
    mutexOwner,   \* std::mutex: the thread holding it, or None
    flag,         \* the shared boolean read by the predicate
    cvWaiters,    \* threads blocked on the std::condition_variable
    notified,     \* blocked threads a notify_all has reached
    now,          \* Clock::now()
    tp,           \* the time_point argument of the current wait_until call
    pc,           \* position of each thread
    waitRet,      \* return value of the current wait_until call: "none" while in progress
    wakeTimeout,  \* the last wake-up of the timed wait happened at or after tp
    wakes,        \* wake-ups seen by the current wait_until call (saturating)
    exitKind,     \* how the reverse_lock_guard scope is being left
    thread,       \* thread_guard::thread of each guard: the owned thread or None (not joinable)
    gState,       \* "unborn", "alive", "destroying", "destroyed"
    movedFrom,    \* guards that have been the rhs of the move constructor
    preJoinCalls, \* invocations of pre_join() by each guard's destructor
    preJoinDone,  \* returns of pre_join() in each guard's destructor
    joins,        \* thread.join() calls begun by each guard's destructor
    cur,          \* the guard whose destructor is running
    mainMode,     \* "held": main holds the mutex; "reversed": main is inside a
                  \* reverse_lock_guard scope on it; "free" otherwise
    dtorMode      \* mainMode when the destructor of cur started

vars == <<mutexOwner, flag, cvWaiters, notified, now, tp, pc, waitRet, wakeTimeout,
          wakes, exitKind, thread, gState, movedFrom,
          preJoinCalls, preJoinDone, joins, cur, mainMode, dtorMode>>

cvVars == <<cvWaiters, notified>>
guardVars == <<thread, gState, movedFrom, preJoinCalls, preJoinDone, joins, cur, mainMode, dtorMode>>
waitVars == <<tp, waitRet, wakeTimeout, wakes>>

Goto(t, l) == pc' = [pc EXCEPT ![t] = l]
Bump(n) == IF n < MaxWakes THEN n + 1 ELSE n

\* the Predicate passed to wait_until: [&]{ return flag; }
predicate == flag

Init ==
    /\ mutexOwner = None
    /\ flag = FALSE
    /\ cvWaiters = {}
    /\ notified = {}
    /\ now = 0
    /\ tp = TimeMax
    /\ pc = [t \in {"main", "worker", "other"} |->
               CASE t = "main" -> "m_start" [] t = "worker" -> "w_idle" [] OTHER -> "o_idle"]
    /\ waitRet = "none"
    /\ wakeTimeout = FALSE
    /\ wakes = 0
    /\ exitKind = "normal"
    /\ thread = [g \in Guards |-> None]
    /\ gState = [g \in Guards |-> "unborn"]
    /\ movedFrom = {}
    /\ preJoinCalls = [g \in Guards |-> 0]
    /\ preJoinDone = [g \in Guards |-> 0]
    /\ joins = [g \in Guards |-> 0]
    /\ cur = 1
    /\ mainMode = "free"
    /\ dtorMode = "free"

\* ---- std::mutex ----------------------------------------------------------
\* m.lock(): blocks until the mutex is free
Lock(t) == mutexOwner = None /\ mutexOwner' = t
\* m.unlock()
Unlock(t) == mutexOwner' = None

\* ---- the clock -----------------------------------------------------------
Tick ==
    /\ now < MaxTime
    /\ now' = now + 1
    /\ UNCHANGED <<mutexOwner, flag, cvWaiters, notified, tp, pc, waitRet, wakeTimeout,
                   wakes, exitKind, thread, gState, movedFrom,
                   preJoinCalls, preJoinDone, joins, cur, mainMode, dtorMode>>

\* ---- the thread body (Function f) up to its call of wait_until --------------
\* std::unique_lock<std::mutex> lock(mutex) at the start of the body
body_lock ==
    /\ pc["worker"] = "w_lock"
    /\ Lock("worker")
    /\ Goto("worker", "w_loop")
    /\ UNCHANGED <<flag, cvVars, now, waitVars, exitKind, guardVars>>

\* loop head: the body calls wait_until with some time_point
body_loop ==
    /\ pc["worker"] = "w_loop"
    /\ \E d \in Deadlines : tp' = d
    /\ waitRet' = "none"
    /\ wakes' = 0
    /\ wakeTimeout' = FALSE
    /\ Goto("worker", "w_call")
    /\ UNCHANGED <<mutexOwner, flag, cvVars, now, exitKind, guardVars>>

\* ---- wait_until ------------------------------------------------------------
\* if ((std::chrono::time_point<Clock, Duration>::max)() == tp)
wait_until_branch == IF TimeMax = tp THEN "w_ucheck" ELSE "w_bcheck"

wait_until_call ==
    /\ pc["worker"] = "w_call"
    /\ Goto("worker", wait_until_branch)
    /\ UNCHANGED <<mutexOwner, flag, cvVars, now, waitVars, exitKind, guardVars>>

\* condition.wait(lock): atomically unlock the mutex and block
cv_block_mut(next) ==
    /\ UNCHANGED mutexOwner
    /\ cvWaiters' = cvWaiters \cup {"worker"}
    /\ notified' = notified \ {"worker"}
    /\ UNCHANGED waitRet
    /\ Goto("worker", next)

cv_block(next) ==
    /\ Unlock("worker")
    /\ cvWaiters' = cvWaiters \cup {"worker"}
    /\ notified' = notified \ {"worker"}
    /\ UNCHANGED waitRet
    /\ Goto("worker", next)

\* condition.wait(lock, predicate); return true;
\*   = while (!predicate()) wait(lock); return true;
wait_pred_mut ==
    /\ pc["worker"] = "w_ucheck"
    /\ IF predicate \/ wakes > 0
         THEN /\ waitRet' = "true"
              /\ Goto("worker", "w_ret")
              /\ UNCHANGED <<mutexOwner, cvVars>>
         ELSE cv_block("w_ublocked")
    /\ UNCHANGED <<flag, now, tp, wakeTimeout, wakes, exitKind, guardVars>>

wait_pred ==
    /\ pc["worker"] = "w_ucheck"
    /\ IF predicate
         THEN /\ waitRet' = "true"
              /\ Goto("worker", "w_ret")
              /\ UNCHANGED <<mutexOwner, cvVars>>
         ELSE cv_block("w_ublocked")
    /\ UNCHANGED <<flag, now, tp, wakeTimeout, wakes, exitKind, guardVars>>

\* a blocked waiter leaves the condition variable and goes to re-lock the mutex
cv_unblock(next) ==
    /\ cvWaiters' = cvWaiters \ {"worker"}
    /\ notified' = notified \ {"worker"}
    /\ wakes' = Bump(wakes)
    /\ Goto("worker", next)

Blocked == pc["worker"] \in {"w_ublocked", "w_bblocked"}
RelockPc == IF pc["worker"] = "w_ublocked" THEN "w_urelock" ELSE "w_brelock"

\* wake-up by notify_all
cv_wake_notified ==
    /\ Blocked
    /\ "worker" \in notified
    /\ cv_unblock(RelockPc)
    /\ wakeTimeout' = (tp # TimeMax /\ now >= tp)
    /\ UNCHANGED <<mutexOwner, flag, now, tp, waitRet, exitKind, guardVars>>

\* spurious wake-up
cv_wake_spurious ==
    /\ Blocked
    /\ cv_unblock(RelockPc)
    /\ wakeTimeout' = (tp # TimeMax /\ now >= tp)
    /\ UNCHANGED <<mutexOwner, flag, now, tp, waitRet, exitKind, guardVars>>

\* wake-up of condition.wait_until(lock, tp) because the clock has reached tp
cv_wake_timeout ==
    /\ pc["worker"] = "w_bblocked"
    /\ now >= tp
    /\ cv_unblock("w_brelock")
    /\ wakeTimeout' = TRUE
    /\ UNCHANGED <<mutexOwner, flag, now, tp, waitRet, exitKind, guardVars>>

\* condition.wait(lock) re-locks the mutex before it returns to the while loop
wait_relock_mut ==
    /\ pc["worker"] = "w_urelock"
    /\ Lock("worker")
    /\ waitRet' = "true"
    /\ Goto("worker", "w_ret")
    /\ UNCHANGED <<flag, cvVars, now, tp, wakeTimeout, wakes, exitKind, guardVars>>

wait_relock ==
    /\ pc["worker"] = "w_urelock"
    /\ Lock("worker")
    /\ Goto("worker", "w_ucheck")
    /\ UNCHANGED <<flag, cvVars, now, waitVars, exitKind, guardVars>>

\* return condition.wait_until(lock, tp, predicate);
\*   = while (!predicate()) if (wait_until(lock, tp) == cv_status::timeout) return predicate();
\*     return true;
wait_until_pred_mut ==
    /\ pc["worker"] = "w_bcheck"
    /\ IF predicate /\ now >= tp
         THEN /\ waitRet' = "true"
              /\ Goto("worker", "w_ret")
              /\ UNCHANGED <<mutexOwner, cvVars>>
         ELSE cv_block("w_bblocked")
    /\ UNCHANGED <<flag, now, tp, wakeTimeout, wakes, exitKind, guardVars>>

wait_until_pred ==
    /\ pc["worker"] = "w_bcheck"
    /\ IF predicate
         THEN /\ waitRet' = "true"
              /\ Goto("worker", "w_ret")
              /\ UNCHANGED <<mutexOwner, cvVars>>
         ELSE cv_block("w_bblocked")
    /\ UNCHANGED <<flag, now, tp, wakeTimeout, wakes, exitKind, guardVars>>

\* cv_status of condition.wait_until(lock, tp) once the mutex is re-locked:
\* no_timeout before tp; timeout when the wake-up was the timeout; when the
\* waiter was woken before tp and re-locked after it, either (the status is
\* taken from the wake-up or from a fresh reading of the clock).
cv_status_mut(timedOut) == {"timeout", "no_timeout"}
cv_status(timedOut) ==
    IF now < tp THEN {"no_timeout"}
    ELSE IF timedOut THEN {"timeout"}
    ELSE {"timeout", "no_timeout"}

wait_until_relock ==
    /\ pc["worker"] = "w_brelock"
    /\ Lock("worker")
    /\ \E st \in cv_status(wakeTimeout) :
          Goto("worker", IF st = "timeout" THEN "w_btimeout" ELSE "w_bcheck")
    /\ UNCHANGED <<flag, cvVars, now, waitVars, exitKind, guardVars>>

\* on cv_status::timeout: return predicate();
timeout_result_mut == "false"
timeout_result == IF predicate THEN "true" ELSE "false"

wait_until_timeout ==
    /\ pc["worker"] = "w_btimeout"
    /\ waitRet' = timeout_result
    /\ Goto("worker", "w_ret")
    /\ UNCHANGED <<mutexOwner, flag, cvVars, now, tp, wakeTimeout, wakes, exitKind, guardVars>>

\* ---- the thread body after wait_until returns --------------------------------
\* true: the flag is set, leave the loop; false: timed out, do the periodic
\* work with the mutex released
body_ret ==
    /\ pc["worker"] = "w_ret"
    /\ Goto("worker", IF waitRet = "true" THEN "w_unlock" ELSE "w_sctor")
    /\ UNCHANGED <<mutexOwner, flag, cvVars, now, waitVars, exitKind, guardVars>>

\* ---- reverse_lock_guard ----------------------------------------------------
\* explicit reverse_lock_guard(mutex_type& m) : m(m) { m.unlock(); }
reverse_lock_guard_ctor_mut ==
    /\ pc["worker"] = "w_sctor"
    /\ Goto("worker", "w_scope")
    /\ UNCHANGED <<mutexOwner, flag, cvVars, now, waitVars, exitKind, guardVars>>

reverse_lock_guard_ctor ==
    /\ pc["worker"] = "w_sctor"
    /\ Unlock("worker")
    /\ Goto("worker", "w_scope")
    /\ UNCHANGED <<flag, cvVars, now, waitVars, exitKind, guardVars>>

\* the scope: it ends normally, by an early return or by an exception
scope_body ==
    /\ pc["worker"] = "w_scope"
    /\ \E k \in ExitKinds : exitKind' = k
    /\ Goto("worker", "w_sdtor")
    /\ UNCHANGED <<mutexOwner, flag, cvVars, now, waitVars, guardVars>>

\* ~reverse_lock_guard() { m.lock(); }
reverse_lock_guard_dtor_mut ==
    /\ pc["worker"] = "w_sdtor"
    /\ IF mutexOwner = None THEN mutexOwner' = "worker" ELSE UNCHANGED mutexOwner
    /\ Goto("worker", "w_sexit")
    /\ UNCHANGED <<flag, cvVars, now, waitVars, exitKind, guardVars>>

reverse_lock_guard_dtor ==
    /\ pc["worker"] = "w_sdtor"
    /\ Lock("worker")
    /\ Goto("worker", "w_sexit")
    /\ UNCHANGED <<flag, cvVars, now, waitVars, exitKind, guardVars>>

\* code after the scope: the next iteration (normal end, or exception caught
\* by the loop) or the end of the body (early return)
scope_exit ==
    /\ pc["worker"] = "w_sexit"
    /\ Goto("worker", IF exitKind = "return" THEN "w_unlock" ELSE "w_loop")
    /\ UNCHANGED <<mutexOwner, flag, cvVars, now, waitVars, exitKind, guardVars>>

\* ~unique_lock at the end of the body; the thread has then finished
body_end ==
    /\ pc["worker"] = "w_unlock"
    /\ Unlock("worker")
    /\ Goto("worker", "w_done")
    /\ UNCHANGED <<flag, cvVars, now, waitVars, exitKind, guardVars>>

\* ---- thread_guard ----------------------------------------------------------
workerVars == <<waitVars, exitKind>>

\* thread_guard(Function f, PreJoin pre_join) : thread(f), pre_join(pre_join) {}
\* (make_thread_guard: return{ f, pj }): std::thread(f) starts the body
thread_guard_ctor_mut ==
    /\ pc["main"] = "m_start"
    /\ gState[1] = "unborn"
    /\ gState' = [gState EXCEPT ![1] = "alive"]
    /\ thread' = [thread EXCEPT ![1] = "worker"]
    /\ joins' = [joins EXCEPT ![1] = @ + 1]
    /\ pc' = [pc EXCEPT !["main"] = "d_join", !["worker"] = "w_lock"]
    /\ UNCHANGED <<mutexOwner, flag, cvVars, now, workerVars, movedFrom, preJoinCalls,
                   preJoinDone, cur, mainMode, dtorMode>>

thread_guard_ctor ==
    /\ pc["main"] = "m_start"
    /\ gState[1] = "unborn"
    /\ gState' = [gState EXCEPT ![1] = "alive"]
    /\ thread' = [thread EXCEPT ![1] = "worker"]
    /\ pc' = [pc EXCEPT !["main"] = "m_live", !["worker"] = "w_lock"]
    /\ UNCHANGED <<mutexOwner, flag, cvVars, now, workerVars, movedFrom, preJoinCalls,
                   preJoinDone, joins, cur, mainMode, dtorMode>>

\* std::thread(std::move(rhs.thread)): the new object takes the handle and
\* rhs.thread is left not joinable
thread_move_mut(rhs, new) == [thread EXCEPT ![new] = thread[rhs]]
thread_move(rhs, new) == [thread EXCEPT ![new] = thread[rhs], ![rhs] = None]

\* thread_guard(thread_guard&& rhs) : thread(std::move(rhs.thread)), pre_join(std::move(rhs.pre_join)) {}
thread_guard_move ==
    /\ pc["main"] = "m_live"
    /\ \E rhs \in Guards, new \in Guards :
          /\ gState[rhs] = "alive"
          /\ gState[new] = "unborn"
          /\ \A g \in Guards : g < new => gState[g] # "unborn"
          /\ thread' = thread_move(rhs, new)
          /\ gState' = [gState EXCEPT ![new] = "alive"]
          /\ movedFrom' = movedFrom \cup {rhs}
    /\ UNCHANGED <<mutexOwner, flag, cvVars, now, pc, workerVars, preJoinCalls,
                   preJoinDone, joins, cur, mainMode, dtorMode>>

\* ~thread_guard() { pre_join(); if (thread.joinable()) thread.join(); }
\* the destructor starts by calling pre_join()
thread_guard_dtor_mut ==
    /\ pc["main"] = "m_live"
    /\ \E g \in Guards :
          /\ gState[g] = "alive"
          /\ gState' = [gState EXCEPT ![g] = "destroying"]
          /\ cur' = g
    /\ dtorMode' = mainMode
    /\ Goto("main", "d_check")
    /\ UNCHANGED <<mutexOwner, flag, cvVars, now, workerVars, thread, movedFrom,
                   preJoinCalls, preJoinDone, joins, mainMode>>

thread_guard_dtor ==
    /\ pc["main"] = "m_live"
    /\ \E g \in Guards :
          /\ gState[g] = "alive"
          /\ gState' = [gState EXCEPT ![g] = "destroying"]
          /\ cur' = g
          /\ preJoinCalls' = [preJoinCalls EXCEPT ![g] = @ + 1]
    /\ dtorMode' = mainMode
    /\ Goto("main", "pj_lock")
    /\ UNCHANGED <<mutexOwner, flag, cvVars, now, workerVars, thread, movedFrom,
                   preJoinDone, joins, mainMode>>

\* condition.notify_all(): reaches every thread blocked at this moment
notify_all == notified \cup cvWaiters

\* pre_join(): { std::lock_guard<std::mutex> lock(mutex); flag = true; ...
\* (the flag is only read and written with the mutex held; the pre_join of a
\* guard that is destroyed by a thread holding the mutex sets the flag under
\* that lock and takes none)
pre_join_lock ==
    /\ pc["main"] = "pj_lock"
    /\ IF mainMode = "held" THEN UNCHANGED mutexOwner ELSE Lock("main")
    /\ flag' = TRUE
    /\ Goto("main", "pj_held")
    /\ UNCHANGED <<cvVars, now, workerVars, guardVars>>

\* ... condition.notify_all(); } and pre_join() returns
pre_join_notify ==
    /\ pc["main"] = "pj_held"
    /\ notified' = notify_all
    /\ IF mainMode = "held" THEN UNCHANGED mutexOwner ELSE Unlock("main")
    /\ preJoinDone' = [preJoinDone EXCEPT ![cur] = @ + 1]
    /\ Goto("main", "d_check")
    /\ UNCHANGED <<flag, cvWaiters, now, workerVars, thread, gState, movedFrom,
                   preJoinCalls, joins, cur, mainMode, dtorMode>>

\* thread.joinable()
joinable(g) == thread[g] # None

\* if (thread.joinable()) thread.join(): the call of join begins, or, the
\* thread not being joinable, the destructor returns
thread_guard_dtor_joinable ==
    /\ pc["main"] = "d_check"
    /\ IF joinable(cur)
         THEN /\ joins' = [joins EXCEPT ![cur] = @ + 1]
              /\ Goto("main", "d_join")
              /\ UNCHANGED gState
         ELSE /\ gState' = [gState EXCEPT ![cur] = "destroyed"]
              /\ Goto("main", "m_live")
              /\ UNCHANGED joins
    /\ UNCHANGED <<mutexOwner, flag, cvVars, now, workerVars, thread, movedFrom,
                   preJoinCalls, preJoinDone, cur, mainMode, dtorMode>>

\* thread.join() blocks until the body has finished; the handle is then not
\* joinable and the destructor returns
thread_join_mut ==
    /\ pc["main"] = "d_join"
    /\ thread' = [thread EXCEPT ![cur] = None]
    /\ gState' = [gState EXCEPT ![cur] = "destroyed"]
    /\ Goto("main", "m_live")
    /\ UNCHANGED <<mutexOwner, flag, cvVars, now, workerVars, movedFrom,
                   preJoinCalls, preJoinDone, joins, cur, mainMode, dtorMode>>

thread_join ==
    /\ pc["main"] = "d_join"
    /\ pc["worker"] = "w_done"
    /\ thread' = [thread EXCEPT ![cur] = None]
    /\ gState' = [gState EXCEPT ![cur] = "destroyed"]
    /\ Goto("main", "m_live")
    /\ UNCHANGED <<mutexOwner, flag, cvVars, now, workerVars, movedFrom,
                   preJoinCalls, preJoinDone, joins, cur, mainMode, dtorMode>>

\* ---- the "other" thread: lock, notify without changing the flag, unlock ----
other_lock ==
    /\ pc["other"] = "o_idle"
    /\ Lock("other")
    /\ Goto("other", "o_held")
    /\ UNCHANGED <<flag, cvVars, now, workerVars, guardVars>>

other_notify ==
    /\ pc["other"] = "o_held"
    /\ notified' = notify_all
    /\ Unlock("other")
    /\ Goto("other", "o_idle")
    /\ UNCHANGED <<flag, cvWaiters, now, workerVars, guardVars>>

\* ---- main holding the mutex, and a reverse_lock_guard scope of main ----------
otherGuardVars == <<thread, gState, movedFrom, preJoinCalls, preJoinDone, joins, cur, dtorMode>>

\* std::unique_lock<std::mutex> lock(mutex) in main
main_lock ==
    /\ pc["main"] = "m_live"
    /\ mainMode = "free"
    /\ Lock("main")
    /\ mainMode' = "held"
    /\ UNCHANGED <<flag, cvVars, now, pc, workerVars, otherGuardVars>>

\* ~unique_lock in main
main_unlock ==
    /\ pc["main"] = "m_live"
    /\ mainMode = "held"
    /\ Unlock("main")
    /\ mainMode' = "free"
    /\ UNCHANGED <<flag, cvVars, now, pc, workerVars, otherGuardVars>>

\* explicit reverse_lock_guard(mutex_type& m) : m(m) { m.unlock(); }, by main
main_reverse_lock_guard_ctor_mut ==
    /\ pc["main"] = "m_live"
    /\ mainMode = "held"
    /\ mainMode' = "reversed"
    /\ UNCHANGED <<mutexOwner, flag, cvVars, now, pc, workerVars, otherGuardVars>>

main_reverse_lock_guard_ctor ==
    /\ pc["main"] = "m_live"
    /\ mainMode = "held"
    /\ Unlock("main")
    /\ mainMode' = "reversed"
    /\ UNCHANGED <<flag, cvVars, now, pc, workerVars, otherGuardVars>>

\* ~reverse_lock_guard() { m.lock(); }, by main
main_reverse_lock_guard_dtor ==
    /\ pc["main"] = "m_live"
    /\ mainMode = "reversed"
    /\ Lock("main")
    /\ mainMode' = "held"
    /\ UNCHANGED <<flag, cvVars, now, pc, workerVars, otherGuardVars>>

\* ---- a reverse_lock_guard constructed by a thread that does not hold the mutex
\* m.unlock() by a thread that does not own m is undefined behaviour: the mutex
\* is released under its holder (or stays free), the call has no effect, or the
\* process is stopped.
unlock_not_owned == {"released", "ignored", "stopped"}

\* explicit reverse_lock_guard(mutex_type& m) : m(m) { m.unlock(); }, by the
\* "other" thread while it does not hold m
other_reverse_lock_guard_ctor ==
    /\ pc["other"] = "o_idle"
    /\ \E outcome \in unlock_not_owned :
          CASE outcome = "released" -> mutexOwner' = None /\ Goto("other", "o_scope")
            [] outcome = "ignored" -> UNCHANGED mutexOwner /\ Goto("other", "o_scope")
            [] OTHER -> UNCHANGED mutexOwner /\ pc' = [t \in DOMAIN pc |-> "stopped"]
    /\ UNCHANGED <<flag, cvVars, now, workerVars, guardVars>>

\* ~reverse_lock_guard() { m.lock(); }, by the "other" thread
other_reverse_lock_guard_dtor ==
    /\ pc["other"] = "o_scope"
    /\ Lock("other")
    /\ Goto("other", "o_held")
    /\ UNCHANGED <<flag, cvVars, now, workerVars, guardVars>>

\* ---- specifications --------------------------------------------------------
\* steps of the thread body that acquire the mutex
WorkerLock == body_lock \/ wait_relock \/ wait_until_relock \/ reverse_lock_guard_dtor

\* the other steps of the thread body, but for a spurious wake-up
WorkerStep ==
    \/ body_loop \/ wait_until_call \/ wait_pred \/ cv_wake_notified \/ cv_wake_timeout
    \/ wait_until_pred \/ wait_until_timeout \/ body_ret \/ reverse_lock_guard_ctor
    \/ scope_body \/ scope_exit \/ body_end

\* steps of ~thread_guard after its call of pre_join, but for locking the mutex
DtorStep == pre_join_notify \/ thread_guard_dtor_joinable \/ thread_join

OtherStep == other_notify

Next ==
    \/ Tick
    \/ WorkerLock \/ WorkerStep
    \/ cv_wake_spurious
    \/ thread_guard_ctor \/ thread_guard_move \/ thread_guard_dtor
    \/ pre_join_lock \/ DtorStep
    \/ other_lock \/ OtherStep

Spec == Init /\ [][Next]_vars

\* Every thread that can take a step eventually takes one (the threads are OS
\* threads), and a thread that waits for the mutex gets it when the mutex is
\* released again and again (no starvation). A destructor that has started runs
\* on. Nothing obliges the clock to advance, a spurious wake-up to happen, main
\* to move or destroy a guard, or the "other" thread to take the mutex.
Fairness ==
    /\ WF_vars(WorkerStep) /\ SF_vars(WorkerLock)
    /\ WF_vars(DtorStep) /\ SF_vars(pre_join_lock)
    /\ WF_vars(OtherStep)

FairSpec == Spec /\ Fairness

\* as FairSpec, and the clock advances
TimedFairSpec == Spec /\ Fairness /\ WF_vars(Tick)

\* The thread body and main alone (the "other" thread stays idle); main may
\* also hold the mutex, and release it for a reverse_lock_guard scope, while it
\* moves and destroys guards
LockedNext ==
    \/ Tick
    \/ WorkerLock \/ WorkerStep
    \/ cv_wake_spurious
    \/ thread_guard_ctor \/ thread_guard_move \/ thread_guard_dtor
    \/ pre_join_lock \/ DtorStep
    \/ main_lock \/ main_unlock
    \/ main_reverse_lock_guard_ctor \/ main_reverse_lock_guard_dtor

\* as FairSpec; a reverse_lock_guard scope of main ends
LockedFairSpec ==
    Init /\ [][LockedNext]_vars /\ Fairness /\ SF_vars(main_reverse_lock_guard_dtor)

\* the "other" thread may also construct a reverse_lock_guard without holding
\* the mutex
MisuseNext == Next \/ other_reverse_lock_guard_ctor \/ other_reverse_lock_guard_dtor

MisuseSpec == Init /\ [][MisuseNext]_vars

\* ---- properties --------------------------------------------------------------
RECURSIVE SumOver(_, _)
SumOver(f, S) == IF S = {} THEN 0
                 ELSE LET g == CHOOSE x \in S : TRUE IN f[g] + SumOver(f, S \ {g})

TotalJoins == SumOver(joins, Guards)
TotalPreJoins == SumOver(preJoinCalls, Guards)
Owners == {g \in Guards : joinable(g)}
AllDestroyed == gState[1] # "unborn" /\ \A g \in Guards : gState[g] \in {"unborn", "destroyed"}
WaitPcs == {"w_call", "w_ucheck", "w_ublocked", "w_urelock",
            "w_bcheck", "w_bblocked", "w_brelock", "w_btimeout"}
InBoundedWait == pc["worker"] \in {"w_bcheck", "w_bblocked", "w_brelock", "w_btimeout"}
Returned == pc["worker"] = "w_ret"

\* C1: a destructor that has begun thread.join() has invoked pre_join() before,
\* and that invocation has returned: join never starts before or during pre_join.
C1_PreJoinReturnsBeforeJoin ==
    \A g \in Guards : joins[g] > 0 => (preJoinCalls[g] >= 1 /\ preJoinDone[g] = preJoinCalls[g])

C1_Witness ==
    /\ pc["main"] = "d_join"
    /\ pc["worker"] # "w_done"
    /\ preJoinDone[cur] = 1
    /\ joins[cur] = 1

\* C2: once the destructor of a guard that owns the thread has started, the
\* body observes the flag and finishes and the destructor completes (its join
\* returns), whatever the interleaving; in particular when the body is in the
\* wait_until call with the maximal time_point.
C2_DestroyEventuallyJoins ==
    (gState[cur] = "destroying" /\ joinable(cur))
        ~> (gState[cur] = "destroyed" /\ pc["worker"] = "w_done" /\ joins[cur] = 1)

C2_Witness ==
    /\ \E g \in Guards : gState[g] = "destroyed" /\ joins[g] = 1
    /\ pc["worker"] = "w_done"
    /\ tp = TimeMax
    /\ waitRet = "true"
    /\ wakes > 0

\* C3: at most one guard owns the thread handle, the thread is joined at most
\* once, and exactly once when every guard that was constructed is destroyed.
C3_UniqueOwnerJoinedOnce ==
    /\ Cardinality(Owners) <= 1
    /\ TotalJoins <= 1
    /\ AllDestroyed => TotalJoins = 1

C3_Witness ==
    /\ AllDestroyed
    /\ movedFrom # {}
    /\ TotalJoins = 1

\* C4 (as claimed): the destructor of a moved-from guard neither invokes
\* pre_join nor joins, and pre_join is invoked once in total.
C4_MovedFromDestructionInert ==
    /\ \A g \in movedFrom : preJoinCalls[g] = 0 /\ joins[g] = 0
    /\ TotalPreJoins <= 1

\* C5: a wait_until call with the maximal time_point returns only true, and
\* only in a state where the caller holds the mutex and the predicate is true,
\* whatever the clock reads.
C5_UnboundedReturnsOnlyTrue ==
    /\ (tp = TimeMax /\ waitRet # "none") => (waitRet = "true" /\ flag)
    /\ (tp = TimeMax /\ Returned) => (mutexOwner = "worker" /\ predicate)

C5_Witness ==
    /\ Returned
    /\ tp = TimeMax
    /\ waitRet = "true"
    /\ wakes > 0
    /\ now = MaxTime

\* C6: a wait_until call with a finite time_point returns true only with the
\* predicate true and false only with the predicate false and the clock at or
\* past the time_point; and with the clock advancing the call returns, with
\* false when the predicate has not become true.
C6_BoundedReturn ==
    /\ []((Returned /\ tp # TimeMax) =>
             /\ (waitRet = "true" => predicate)
             /\ (waitRet = "false" => (~predicate /\ now >= tp)))
    /\ (InBoundedWait ~> (Returned /\ (flag \/ waitRet = "false")))

C6_Witness ==
    /\ Returned
    /\ tp # TimeMax
    /\ tp > 0
    /\ waitRet = "false"
    /\ wakes > 0

\* C7: a timed wait that is blocked before its time_point when the flag has
\* been set and the notification has reached it returns true, also when the
\* clock never advances.
C7_NotifiedReturnsTrueEarly ==
    (pc["worker"] = "w_bblocked" /\ flag /\ "worker" \in notified /\ now < tp)
        ~> (Returned /\ waitRet = "true")

C7_Witness ==
    /\ Returned
    /\ waitRet = "true"
    /\ tp # TimeMax
    /\ now < tp
    /\ wakes > 0

\* C8: while the predicate is false and (for a finite time_point) the clock is
\* before the time_point, a call that has been woken up, any number of times,
\* has not returned: it is still inside wait_until.
C8_WakeupWithFalsePredicateKeepsWaiting ==
    (wakes > 0 /\ ~predicate /\ (tp = TimeMax \/ now < tp))
        => (waitRet = "none" /\ pc["worker"] \in WaitPcs)

C8_Witness ==
    /\ wakes >= 2
    /\ ~predicate
    /\ tp = TimeMax \/ now < tp
    /\ pc["worker"] \in {"w_ublocked", "w_bblocked"}

\* C9: inside the scope of a reverse_lock_guard the thread that constructed it
\* does not hold the mutex (another thread can hold it); after the scope it
\* holds the mutex again.
C9_InversionRoundTrip ==
    /\ pc["worker"] \in {"w_scope", "w_sdtor"} => mutexOwner # "worker"
    /\ pc["worker"] = "w_sexit" => mutexOwner = "worker"

C9_Witness ==
    /\ pc["worker"] = "w_scope"
    /\ mutexOwner = "other"

\* C10: whichever way the scope is left, the thread stays in the
\* reverse_lock_guard destructor while another thread holds the mutex, and
\* it leaves the destructor holding the mutex once the mutex is released.
C10_ScopeExitReacquires ==
    /\ [][(pc["worker"] = "w_sdtor" /\ mutexOwner # None) => pc'["worker"] = "w_sdtor"]_vars
    /\ [][pc["worker"] = "w_sdtor" => exitKind' = exitKind]_vars
    /\ pc["worker"] = "w_sdtor" ~> (pc["worker"] = "w_sexit" /\ mutexOwner = "worker")

C10_Witness ==
    /\ pc["worker"] = "w_sdtor"
    /\ exitKind = "throw"
    /\ mutexOwner \in {"main", "other"}

\* the positions at which a thread has locked the mutex and not yet unlocked it
HoldPcs(t) ==
    CASE t = "worker" -> {"w_loop", "w_call", "w_ucheck", "w_bcheck", "w_btimeout", "w_ret",
                          "w_sctor", "w_sexit", "w_unlock"}
      [] t = "main" -> {"pj_held"}
      [] OTHER -> {"o_held"}
Holders == {t \in DOMAIN pc : pc[t] \in HoldPcs(t) \/ (t = "main" /\ mainMode = "held")}
Suspended == pc["worker"] \in {"w_ublocked", "w_bblocked", "w_urelock", "w_brelock"}
EvaluatesPredicate == pc["worker"] \in {"w_ucheck", "w_bcheck", "w_btimeout"}

\* C11: a thread suspended inside wait_until does not hold the mutex (another
\* thread can hold it); wait_until evaluates the predicate, and returns, only
\* with the mutex held by the calling thread.
C11_WaitLockDiscipline ==
    /\ Suspended => mutexOwner # "worker"
    /\ EvaluatesPredicate => mutexOwner = "worker"
    /\ Returned => mutexOwner = "worker"

C11_Witness ==
    /\ pc["worker"] \in {"w_ublocked", "w_bblocked"}
    /\ mutexOwner = "main"
    /\ wakes > 0

\* C12: a guard that has been constructed and whose destructor has not started
\* has invoked neither pre_join nor join, its thread body has been started, and
\* the constructing thread has gone on, also while the body is blocked.
C12_ConstructionStartsWithoutJoining ==
    /\ \A g \in Guards : gState[g] \in {"unborn", "alive"} =>
                            (preJoinCalls[g] = 0 /\ preJoinDone[g] = 0 /\ joins[g] = 0)
    /\ gState[1] # "unborn" => (pc["worker"] # "w_idle" /\ pc["main"] # "m_start")

C12_Witness ==
    /\ gState[1] = "alive"
    /\ pc["main"] = "m_live"
    /\ pc["worker"] = "w_ublocked"
    /\ ~flag
    /\ preJoinCalls[1] = 0
    /\ joins[1] = 0

\* C14: a destructor that called join has returned only with the thread body
\* finished, and while the body has not finished it stays in join.
C14_DestructorReturnsAfterBody ==
    /\ [](\A g \in Guards : (gState[g] = "destroyed" /\ joins[g] > 0) => pc["worker"] = "w_done")
    /\ [][(pc["main"] = "d_join" /\ pc["worker"] # "w_done") => pc'["main"] = "d_join"]_vars

C14_Witness ==
    /\ pc["main"] = "d_join"
    /\ pc["worker"] \in {"w_ublocked", "w_urelock"}
    /\ flag
    /\ joins[cur] = 1

\* C15: the threads that have locked and not unlocked the mutex are exactly its
\* one holder (none when it is free); a thread locks only a free mutex that it
\* does not hold and only the holder unlocks.
C15_MutexDiscipline ==
    /\ [](Holders = IF mutexOwner = None THEN {} ELSE {mutexOwner})
    /\ [](Cardinality(Holders) <= 1)
    /\ [][\A t \in DOMAIN pc :
            /\ (t \notin Holders /\ t \in Holders') => (mutexOwner = None /\ mutexOwner' = t)
            /\ (t \in Holders /\ t \notin Holders') => (mutexOwner = t /\ mutexOwner' = None)]_vars

C15_Witness ==
    /\ pc["worker"] = "w_sdtor"
    /\ pc["main"] = "pj_lock"
    /\ mutexOwner = "other"

\* C17: the value returned for a finite time_point is the value of the predicate
\* at the return; a predicate that is true when wait_until evaluates it, at the
\* call or after a timeout, makes the call return true there, without blocking,
\* wherever the clock is.
C17_BoundedResultIsPredicate ==
    /\ []((Returned /\ tp # TimeMax) => (waitRet = "true" <=> predicate))
    /\ [][(pc["worker"] \in {"w_bcheck", "w_btimeout"} /\ predicate
              /\ pc'["worker"] # pc["worker"])
            => (pc'["worker"] = "w_ret" /\ waitRet' = "true" /\ cvWaiters' = cvWaiters)]_vars

C17_Witness ==
    /\ Returned
    /\ tp # TimeMax
    /\ now >= tp
    /\ wakeTimeout
    /\ waitRet = "true"

\* C18: a destructor that has reached join, or returned after it, has invoked
\* pre_join exactly once, also when the thread body had finished before; and a
\* join on a finished body can return at once.
C18_PreJoinAlsoForFinishedThread ==
    /\ \A g \in Guards : joins[g] > 0 => (preJoinCalls[g] = 1 /\ preJoinDone[g] = 1)
    /\ (pc["main"] = "d_join" /\ pc["worker"] = "w_done") => ENABLED thread_join

C18_Witness ==
    /\ pc["main"] = "pj_lock"
    /\ joinable(cur)
    /\ pc["worker"] = "w_done"
    /\ ~flag
    /\ preJoinCalls[cur] = 1

\* C13 (as claimed): a reverse_lock_guard constructor called by a thread that
\* does not hold the mutex never returns to its caller: the process is stopped.
C13_MisuseIsFatal ==
    pc["other"] # "o_scope"

\* C16: a guard destroyed by main inside a reverse_lock_guard scope on the
\* mutex is joined and the scope ends with main holding the mutex again; a
\* guard destroyed by main while it holds the mutex, its body not finished,
\* is never joined: main stays in join and the body never finishes.
C16_DestroyInsideInversionScope ==
    /\ (dtorMode = "reversed" /\ gState[cur] = "destroying" /\ joinable(cur))
          ~> (gState[cur] = "destroyed" /\ pc["worker"] = "w_done")
    /\ (mainMode = "reversed") ~> (mainMode = "held" /\ mutexOwner = "main")
    /\ [][(mainMode = "held" /\ pc["main"] = "d_join" /\ pc["worker"] # "w_done")
            => (mainMode' = "held" /\ pc'["main"] = "d_join" /\ pc'["worker"] # "w_done")]_vars

C16_Witness ==
    /\ dtorMode = "reversed"
    /\ gState[cur] = "destroyed"
    /\ joins[cur] = 1
    /\ waitRet = "true"
    /\ wakes > 0
    /\ mainMode = "held"
    /\ mutexOwner = "main"
====
